---- MODULE Spec2Model ----
(***************************************************************************)
(* A/B test playground: the statistics core (src/ab_testing/stats.py), the *)
(* summary generator (src/ab_testing/copydeck.py) and the Streamlit click  *)
(* handler (src/app.py).                                                   *)
(*                                                                         *)
(* Numbers.  A Python float is modelled by the exact rational it stands    *)
(* for, <<num, den>> in lowest terms with den > 0 (NaN and the infinities  *)
(* are not modelled).  The z-score, an irrational in general, is the exact *)
(* signed root <<sgn, num, den>> = sgn * sqrt(num/den).  scipy's norm.cdf  *)
(* is a step function through a table of standard normal quantiles.        *)
(***************************************************************************)
EXTENDS Integers, Sequences, FiniteSets, TLC

VARIABLES
    caller,     \* "api": a direct caller of the library; "app": src/app.py
    fn,         \* the library function of the current / most recent call
    args,       \* its arguments
    pc,         \* position inside run_ab_test ("idle" and "done" outside it)
    frame,      \* run_ab_test's local variables assigned so far
    trace,      \* the components run_ab_test has invoked, in order
    outcome,    \* how the call ended: a returned value or a raised exception
    widgets,    \* app: the values of the input widgets
    screen      \* app: the elements rendered in the results column

vars == <<caller, fn, args, pc, frame, trace, outcome, widgets, screen>>

(***************************************************************************)
(* Bounds of the model.                                                    *)
(***************************************************************************)
MaxN == 3

Counts == (0 - 1)..MaxN             \* any integer argument, negative included
NonNegCounts == 0..MaxN             \* st.number_input(min_value=0)

(***************************************************************************)
(* Float arithmetic, as exact rationals.                                   *)
(***************************************************************************)
Abs(x) == IF x < 0 THEN 0 - x ELSE x

RECURSIVE Gcd(_, _)
Gcd(a, b) == IF b = 0 THEN a ELSE Gcd(b, a % b)

Rat(n, d) ==
    LET s == IF d < 0 THEN 0 - 1 ELSE 1
        g == Gcd(Abs(n), Abs(d))
    IN  <<(s * n) \div g, (s * d) \div g>>

Zero == <<0, 1>>
One == <<1, 1>>

RAdd(x, y) == Rat(x[1] * y[2] + y[1] * x[2], x[2] * y[2])
RSub(x, y) == Rat(x[1] * y[2] - y[1] * x[2], x[2] * y[2])
RMul(x, y) == Rat(x[1] * y[1], x[2] * y[2])
RDiv(x, y) == Rat(x[1] * y[2], x[2] * y[1])         \* y # Zero
RLt(x, y) == x[1] * y[2] < y[1] * x[2]
RAbs(x) == <<Abs(x[1]), x[2]>>
FromInt(i) == <<i, 1>>

\* x ** 0.5 for x >= 0, and the float operations applied to a root
ZeroRoot == <<0, 0, 1>>
RootOf(x) == IF x = Zero THEN ZeroRoot ELSE <<1, x[1], x[2]>>
\* x / sqrt(v), v > 0: sign(x) * sqrt(x^2 / v)
DivByRoot(x, root) ==
    IF x = Zero THEN ZeroRoot
    ELSE LET sq == RDiv(RMul(x, x), <<root[2], root[3]>>)
         IN  <<IF x[1] < 0 THEN 0 - 1 ELSE 1, sq[1], sq[2]>>
RootAbs(z) == <<Abs(z[1]), z[2], z[3]>>

(***************************************************************************)
(* How a call ends.                                                        *)
(***************************************************************************)
NoneValue == <<>>
NoOutcome == [kind |-> "none", value |-> <<>>, exc |-> "", msg |-> <<>>]
Return(v) == [kind |-> "return", value |-> v, exc |-> "", msg |-> <<>>]
Raise(e, m) == [kind |-> "raise", value |-> <<>>, exc |-> e, msg |-> m]

(***************************************************************************)
(* src/ab_testing/stats.py                                                 *)
(***************************************************************************)
\* conversion_rate with floor division (conversions // total)
conversion_rate_floor_division(conversions, total) ==
    IF total = 0 THEN Zero ELSE FromInt(conversions \div total)

conversion_rate(conversions, total) ==
    IF total = 0 THEN Zero ELSE Rat(conversions, total)

compute_lift(cr_a, cr_b) ==
    LET lift_abs == RSub(cr_b, cr_a)
        lift_rel == IF cr_a = Zero THEN Zero ELSE RDiv(lift_abs, cr_a)
    IN  <<lift_abs, lift_rel>>

InvalidABTestInput == "InvalidABTestInput"

\* _raise_if_invalid_group with the zero-size check moved before the
\* negative-conversions check
raise_if_invalid_group_zero_first(n, c, label) ==
    IF n < 0 THEN
        Raise(InvalidABTestInput, <<"Group", label, "sample size is negative">>)
    ELSE IF n = 0 THEN
        Raise(InvalidABTestInput, <<"Group", label, "sample size cannot be 0">>)
    ELSE IF c < 0 THEN
        Raise(InvalidABTestInput, <<"Group", label, "conversions are negative">>)
    ELSE IF c > n THEN
        Raise(InvalidABTestInput,
              <<"Group", label, "conversions are greater than sample size">>)
    ELSE Return(NoneValue)

raise_if_invalid_group(n, c, label) ==
    IF n < 0 THEN
        Raise(InvalidABTestInput, <<"Group", label, "sample size is negative">>)
    ELSE IF c < 0 THEN
        Raise(InvalidABTestInput, <<"Group", label, "conversions are negative">>)
    ELSE IF n = 0 THEN
        Raise(InvalidABTestInput, <<"Group", label, "sample size cannot be 0">>)
    ELSE IF c > n THEN
        Raise(InvalidABTestInput,
              <<"Group", label, "conversions are greater than sample size">>)
    ELSE Return(NoneValue)

validate_inputs(n_a, c_a, n_b, c_b) ==
    LET a == raise_if_invalid_group(n_a, c_a, "A")
    IN  IF a.kind = "raise" THEN a ELSE raise_if_invalid_group(n_b, c_b, "B")

\* scipy.stats.norm.cdf: <<z in hundredths, Phi(z)>>, the first hundredth at
\* which the standard normal distribution function reaches the value
NormTable ==
    << <<0, <<1, 2>> >>,       <<26, <<3, 5>> >>,      <<53, <<7, 10>> >>,
       <<85, <<4, 5>> >>,      <<129, <<9, 10>> >>,    <<165, <<19, 20>> >>,
       <<196, <<39, 40>> >>,   <<233, <<99, 100>> >>,  <<258, <<199, 200>> >>,
       <<310, <<999, 1000>> >>, <<330, <<1999, 2000>> >> >>

\* Phi at |z|: the last table entry whose quantile is <= |z|
NormCdfAbs(z) ==
    LET reached == {i \in 1..Len(NormTable) :
                      NormTable[i][1] * NormTable[i][1] * z[3] <= 10000 * z[2]}
        last == CHOOSE i \in reached : \A j \in reached : j <= i
    IN  NormTable[last][2]

NormCdf(z) ==
    IF z[1] < 0 THEN RSub(One, NormCdfAbs(z)) ELSE NormCdfAbs(z)

ZeroDivisionError == Raise("ZeroDivisionError", <<"division by zero">>)

z_test_proportions(n_a, c_a, n_b, c_b, alternative) ==
    LET cr_a == conversion_rate(c_a, n_a)
        cr_b == conversion_rate(c_b, n_b)
    IN  IF n_a + n_b = 0 THEN ZeroDivisionError             \* line 103
        ELSE IF n_a = 0 \/ n_b = 0 THEN ZeroDivisionError    \* line 104
        ELSE
          LET pooled == Rat(c_a + c_b, n_a + n_b)
              variance == RMul(RMul(pooled, RSub(One, pooled)),
                               RAdd(Rat(1, n_a), Rat(1, n_b)))
              standard_error == RootOf(variance)
              z_score == DivByRoot(RSub(cr_b, cr_a), standard_error)
          IN  IF standard_error = ZeroRoot THEN Return(<<ZeroRoot, One>>)
              ELSE IF alternative = "two-sided" THEN
                  Return(<<z_score,
                           RMul(FromInt(2), RSub(One, NormCdf(RootAbs(z_score))))>>)
              ELSE IF alternative = "larger" THEN
                  Return(<<z_score, RSub(One, NormCdf(z_score))>>)
              ELSE IF alternative = "smaller" THEN
                  Return(<<z_score, NormCdf(z_score)>>)
              ELSE Raise("ValueError",
                     <<"alternative must be 'two-sided', 'larger', or 'smaller'">>)

ABTestResultFields ==
    {"n_a", "c_a", "n_b", "c_b", "cr_a", "cr_b", "lift_abs", "lift_rel",
     "z_score", "p_value", "alpha", "is_significant"}

ABTestResult(n_a, c_a, n_b, c_b, cr_a, cr_b, lift_abs, lift_rel, z_score, p_value, alpha, is_significant) ==
    [n_a |-> n_a, c_a |-> c_a, n_b |-> n_b, c_b |-> c_b,
     cr_a |-> cr_a, cr_b |-> cr_b, lift_abs |-> lift_abs, lift_rel |-> lift_rel,
     z_score |-> z_score, p_value |-> p_value, alpha |-> alpha,
     is_significant |-> is_significant]

(***************************************************************************)
(* src/ab_testing/copydeck.py                                              *)
(***************************************************************************)
\* an f-string field: the format specification and the number it formats
Fmt(spec, value) == <<"fmt", spec, value>>

Epsilon == <<1, 1000000>>                               \* 1e-6

DirectionNone == "No observable difference between variant B and control A"
DirectionBetter == "Variant B performs better than control A"
DirectionWorse == "Variant B performs worse than control A"

RecoShip == "Recommendation: ship variant B; it shows a statistically significant improvement over control A."
RecoContinue == "Recommendation: continue the test and collect more data before making a decision."
RecoHurts == "Recommendation: keep control A; variant B appears to hurt performance."
RecoKeep == "Recommendation: keep control A for now; there is no strong evidence that variant B improves performance."
RecoNoDifference == "Recommendation: no clear evidence of a difference between A and B; you may keep control A or redesign the experiment."

\* the direction line with the exact-zero comparison of the recommendation
direction_text_exact_zero(lift_abs) ==
    IF lift_abs = Zero THEN DirectionNone
    ELSE IF RLt(Zero, lift_abs) THEN DirectionBetter
    ELSE DirectionWorse

\* lines 57-62
direction_text(lift_abs) ==
    IF RLt(RAbs(lift_abs), Epsilon) THEN DirectionNone
    ELSE IF RLt(Zero, lift_abs) THEN DirectionBetter
    ELSE DirectionWorse

\* the recommendation with the epsilon tolerance of the direction line
reco_text_epsilon(lift_abs, is_significant) ==
    IF RLt(RAbs(lift_abs), Epsilon) THEN RecoNoDifference
    ELSE IF RLt(Zero, lift_abs) /\ is_significant THEN RecoShip
    ELSE IF RLt(Zero, lift_abs) /\ ~is_significant THEN RecoContinue
    ELSE IF RLt(lift_abs, Zero) /\ is_significant THEN RecoHurts
    ELSE RecoKeep

\* lines 69-78
reco_text(lift_abs, is_significant) ==
    IF RLt(Zero, lift_abs) /\ is_significant THEN RecoShip
    ELSE IF RLt(Zero, lift_abs) /\ ~is_significant THEN RecoContinue
    ELSE IF RLt(lift_abs, Zero) /\ is_significant THEN RecoHurts
    ELSE IF RLt(lift_abs, Zero) /\ ~is_significant THEN RecoKeep
    ELSE RecoNoDifference

build_result_summary(result) ==
    LET lift_abs == result.lift_abs
        lift_rel == result.lift_rel
        lift_rel_pct == RMul(lift_rel, FromInt(100))
        p_value == result.p_value
        alpha == result.alpha
        is_significant == result.is_significant
        lift_rel_formatted == <<Fmt("+.2f", lift_rel_pct), "%">>
        p_value_text ==
            IF RLt(p_value, <<1, 1000>>) THEN <<"p < 0.001">>
            ELSE <<"p = ", Fmt(".3f", p_value)>>
        significance_text ==
            IF is_significant
            THEN <<"The result is statistically significant at alpha = ",
                   Fmt(".2f", alpha)>>
            ELSE <<"The result is not statistically significant at alpha = ",
                   Fmt(".2f", alpha)>>
        line1 == <<direction_text(lift_abs), lift_rel_formatted>>
        line2 == <<significance_text, p_value_text>>
        line3 == reco_text(lift_abs, is_significant)
    IN  <<line1, line2, line3>>

(***************************************************************************)
(* Arguments a direct caller of the library may pass.                      *)
(***************************************************************************)
RecognizedAlternatives == {"two-sided", "larger", "smaller"}
Alternatives == RecognizedAlternatives \cup {"bogus"}
AlphaValues == {<<1, 20>>, <<1, 10>>, One, <<3, 2>>}
RateValues == {<<0 - 1, 2>>, Zero, <<1, 10>>, <<1, 2>>, One}
LiftValues ==
    {<<0 - 3, 100>>, <<0 - 1, 1000000>>, <<0 - 1, 2000000>>, Zero,
     <<1, 2000000>>, <<1, 1000000>>, <<3, 100>>}
LiftRelValues == {<<0 - 3, 10>>, Zero, <<3, 10>>}
PValues == {<<1, 2000>>, <<1, 1000>>, <<1, 100>>, One}

\* an ABTestResult built by the caller for build_result_summary, which reads
\* lift_abs, lift_rel, p_value, alpha and is_significant only
SummaryInput(lift_abs, lift_rel, p_value, alpha, is_significant) ==
    ABTestResult(1, 0, 1, 0, Zero, Zero, lift_abs, lift_rel, ZeroRoot, p_value,
                 alpha, is_significant)

EmptyFrame == [x \in {} |-> 0]

(***************************************************************************)
(* src/app.py: the widgets and what the results column shows.              *)
(***************************************************************************)
\* the select box with an option the core does not recognize
alternatives_with_unrecognized == <<"two-sided", "larger", "smaller", "bogus">>

\* line 34
alternatives == <<"two-sided", "larger", "smaller">>
SliderValues == {<<1, 100>>, <<1, 20>>, <<1, 10>>}

WidgetDomain ==
    [n_a |-> NonNegCounts, c_a |-> NonNegCounts,
     n_b |-> NonNegCounts, c_b |-> NonNegCounts,
     alternative |-> {alternatives[i] : i \in 1..Len(alternatives)},
     alpha |-> SliderValues]

WidgetStates ==
    [n_a : WidgetDomain.n_a, c_a : WidgetDomain.c_a,
     n_b : WidgetDomain.n_b, c_b : WidgetDomain.c_b,
     alternative : WidgetDomain.alternative, alpha : WidgetDomain.alpha]

NoWidgets == [n_a |-> 0, c_a |-> 0, n_b |-> 0, c_b |-> 0,
              alternative |-> "", alpha |-> Zero]

\* lines 42-43, rendered on every run of the script
BaseScreen ==
    << <<"header", "Results">>,
       <<"write", "Results will appear here after running the test.">> >>

\* lines 51-85, the else branch of the click handler
RenderResult(result) ==
    LET cr_a_pct == RMul(result.cr_a, FromInt(100))
        cr_b_pct == RMul(result.cr_b, FromInt(100))
        lift_rel_pct == RMul(result.lift_rel, FromInt(100))
        is_significant == IF result.is_significant THEN "Yes" ELSE "No"
        summary == build_result_summary(result)
    IN  << <<"subheader", "Conversion Metrics">>,
           <<"metric", "CR(A)", <<Fmt(".1f", cr_a_pct), "%">> >>,
           <<"metric", "CR(B)", <<Fmt(".1f", cr_b_pct), "%">> >>,
           <<"metric", "Lift", <<Fmt("+.1f", lift_rel_pct), "%">> >>,
           <<"subheader", "Statistics Results">>,
           <<"metric", "Z-score", Fmt(".3f", result.z_score)>>,
           <<"metric", "p-value", Fmt(".3f", result.p_value)>>,
           <<"write", <<"Significant at alpha = ", result.alpha, ": ",
                        is_significant>> >>,
           <<"subheader", "Summary">>,
           <<"info", summary>> >>

(***************************************************************************)
(* run_ab_test, one step per statement (stats.py lines 138-157).           *)
(***************************************************************************)
\* line 138 with the failure of validate_inputs swallowed
run_ab_test_validate_swallowed ==
    /\ pc = "validate"
    /\ trace' = Append(trace, "validate_inputs")
    /\ pc' = "rates"
    /\ UNCHANGED <<caller, fn, args, frame, outcome, widgets, screen>>

run_ab_test_validate ==
    /\ pc = "validate"
    /\ LET r == validate_inputs(args.n_a, args.c_a, args.n_b, args.c_b)
       IN  /\ trace' = Append(trace, "validate_inputs")
           /\ IF r.kind = "raise"
              THEN pc' = "done" /\ outcome' = r
              ELSE pc' = "rates" /\ UNCHANGED outcome
    /\ UNCHANGED <<caller, fn, args, frame, widgets, screen>>

run_ab_test_rates ==
    /\ pc = "rates"
    /\ frame' = frame @@ [cr_a |-> conversion_rate(args.c_a, args.n_a),
                          cr_b |-> conversion_rate(args.c_b, args.n_b)]
    /\ trace' = trace \o <<"conversion_rate", "conversion_rate">>
    /\ pc' = "lift"
    /\ UNCHANGED <<caller, fn, args, outcome, widgets, screen>>

run_ab_test_lift ==
    /\ pc = "lift"
    /\ LET l == compute_lift(frame.cr_a, frame.cr_b)
       IN  frame' = frame @@ [lift_abs |-> l[1], lift_rel |-> l[2]]
    /\ trace' = Append(trace, "compute_lift")
    /\ pc' = "ztest"
    /\ UNCHANGED <<caller, fn, args, outcome, widgets, screen>>

run_ab_test_ztest ==
    /\ pc = "ztest"
    /\ LET r == z_test_proportions(args.n_a, args.c_a, args.n_b, args.c_b,
                                   args.alternative)
       IN  /\ trace' = Append(trace, "z_test_proportions")
           /\ IF r.kind = "raise"
              THEN pc' = "done" /\ outcome' = r /\ UNCHANGED frame
              ELSE /\ pc' = "significant"
                   /\ frame' = frame @@ [z_score |-> r.value[1],
                                         p_value |-> r.value[2]]
                   /\ UNCHANGED outcome
    /\ UNCHANGED <<caller, fn, args, widgets, screen>>

\* line 142 with p_value <= alpha
run_ab_test_significant_or_equal ==
    /\ pc = "significant"
    /\ frame' = frame @@ [is_significant |-> ~RLt(args.alpha, frame.p_value)]
    /\ pc' = "return"
    /\ UNCHANGED <<caller, fn, args, trace, outcome, widgets, screen>>

run_ab_test_significant ==
    /\ pc = "significant"
    /\ frame' = frame @@ [is_significant |-> RLt(frame.p_value, args.alpha)]
    /\ pc' = "return"
    /\ UNCHANGED <<caller, fn, args, trace, outcome, widgets, screen>>

run_ab_test_return ==
    /\ pc = "return"
    /\ outcome' = Return(ABTestResult(args.n_a, args.c_a, args.n_b, args.c_b,
                             frame.cr_a, frame.cr_b, frame.lift_abs,
                             frame.lift_rel, frame.z_score, frame.p_value,
                             args.alpha, frame.is_significant))
    /\ pc' = "done"
    /\ UNCHANGED <<caller, fn, args, frame, trace, widgets, screen>>

run_ab_test ==
    \/ run_ab_test_validate
    \/ run_ab_test_rates
    \/ run_ab_test_lift
    \/ run_ab_test_ztest
    \/ run_ab_test_significant
    \/ run_ab_test_return

RunArgs(n_a, c_a, n_b, c_b, alpha, alternative) ==
    [n_a |-> n_a, c_a |-> c_a, n_b |-> n_b, c_b |-> c_b, alpha |-> alpha,
     alternative |-> alternative]

(***************************************************************************)
(* A direct caller of the library: one call at a time.                     *)
(***************************************************************************)
\* a call of a function that runs to its end in one step
Called(f, a, o) ==
    /\ caller = "api"
    /\ pc = "idle"
    /\ fn' = f
    /\ args' = a
    /\ outcome' = o
    /\ pc' = "done"
    /\ frame' = EmptyFrame
    /\ trace' = <<>>
    /\ UNCHANGED <<caller, widgets, screen>>

CallConversionRate ==
    \E conversions \in Counts, total \in Counts :
        Called("conversion_rate", <<conversions, total>>,
               Return(conversion_rate(conversions, total)))

CallComputeLift ==
    \E cr_a \in RateValues, cr_b \in RateValues :
        Called("compute_lift", <<cr_a, cr_b>>, Return(compute_lift(cr_a, cr_b)))

CallValidateInputs ==
    \E n_a \in Counts, c_a \in Counts, n_b \in Counts, c_b \in Counts :
        Called("validate_inputs", <<n_a, c_a, n_b, c_b>>,
               validate_inputs(n_a, c_a, n_b, c_b))

\* counts with 0 <= c <= n, n = 0 included: the variance is never negative
CallZTestProportions ==
    \E n_a \in NonNegCounts, n_b \in NonNegCounts :
    \E c_a \in 0..n_a, c_b \in 0..n_b, alternative \in Alternatives :
        Called("z_test_proportions", <<n_a, c_a, n_b, c_b, alternative>>,
               z_test_proportions(n_a, c_a, n_b, c_b, alternative))

CallBuildResultSummary ==
    \E lift_abs \in LiftValues, lift_rel \in LiftRelValues, p_value \in PValues,
       alpha \in {<<1, 20>>}, is_significant \in BOOLEAN :
        LET result == SummaryInput(lift_abs, lift_rel, p_value, alpha,
                                   is_significant)
        IN  Called("build_result_summary", result,
                   Return(build_result_summary(result)))

CallRunAbTest ==
    /\ caller = "api"
    /\ pc = "idle"
    /\ \E n_a \in Counts, c_a \in Counts, n_b \in Counts, c_b \in Counts,
          alpha \in AlphaValues, alternative \in Alternatives :
            args' = RunArgs(n_a, c_a, n_b, c_b, alpha, alternative)
    /\ fn' = "run_ab_test"
    /\ pc' = "validate"
    /\ outcome' = NoOutcome
    /\ frame' = EmptyFrame
    /\ trace' = <<>>
    /\ UNCHANGED <<caller, widgets, screen>>

\* the caller has the outcome of its call and may make the next one
CallEnds ==
    /\ caller = "api"
    /\ pc = "done"
    /\ pc' = "idle"
    /\ fn' = "none"
    /\ args' = <<>>
    /\ outcome' = NoOutcome
    /\ frame' = EmptyFrame
    /\ trace' = <<>>
    /\ UNCHANGED <<caller, widgets, screen>>

Init ==
    /\ caller = "api"
    /\ fn = "none"
    /\ args = <<>>
    /\ pc = "idle"
    /\ frame = EmptyFrame
    /\ trace = <<>>
    /\ outcome = NoOutcome
    /\ widgets = NoWidgets
    /\ screen = <<>>

Next ==
    \/ CallConversionRate
    \/ CallComputeLift
    \/ CallValidateInputs
    \/ CallZTestProportions
    \/ CallBuildResultSummary
    \/ CallRunAbTest
    \/ run_ab_test
    \/ CallEnds

Spec == Init /\ [][Next]_vars

(***************************************************************************)
(* src/app.py: one run of the script per widget change or button click.    *)
(***************************************************************************)
\* a widget changes: the script runs with run_clicked false (lines 29-43)
WidgetChange ==
    /\ caller = "app"
    /\ pc = "idle"
    /\ \E k \in DOMAIN WidgetDomain : \E v \in WidgetDomain[k] :
          /\ v # widgets[k]
          /\ widgets' = [widgets EXCEPT ![k] = v]
    /\ screen' = BaseScreen
    /\ fn' = "none"
    /\ args' = <<>>
    /\ outcome' = NoOutcome
    /\ frame' = EmptyFrame
    /\ trace' = <<>>
    /\ UNCHANGED <<caller, pc>>

\* "Run A/B Test" is clicked: the script runs up to the call on line 47
RunClicked ==
    /\ caller = "app"
    /\ pc = "idle"
    /\ screen' = BaseScreen
    /\ fn' = "run_ab_test"
    /\ args' = RunArgs(widgets.n_a, widgets.c_a, widgets.n_b, widgets.c_b,
                       widgets.alpha, widgets.alternative)
    /\ pc' = "validate"
    /\ outcome' = NoOutcome
    /\ frame' = EmptyFrame
    /\ trace' = <<>>
    /\ UNCHANGED <<caller, widgets>>

\* lines 46-85: what the try statement does with how run_ab_test ended; an
\* exception other than InvalidABTestInput is not caught and ends the script
RunClickedHandler ==
    /\ caller = "app"
    /\ pc = "done"
    /\ screen' = screen \o
          (IF outcome.kind = "raise"
           THEN IF outcome.exc = InvalidABTestInput
                THEN << <<"error", outcome.msg>> >>
                ELSE << <<"uncaught", outcome.exc>> >>
           ELSE RenderResult(outcome.value))
    /\ pc' = "idle"
    /\ UNCHANGED <<caller, fn, args, frame, trace, outcome, widgets>>

AppInit ==
    /\ caller = "app"
    /\ fn = "none"
    /\ args = <<>>
    /\ pc = "idle"
    /\ frame = EmptyFrame
    /\ trace = <<>>
    /\ outcome = NoOutcome
    /\ widgets \in WidgetStates
    /\ screen = BaseScreen

AppNext ==
    \/ WidgetChange
    \/ RunClicked
    \/ run_ab_test
    \/ RunClickedHandler

AppSpec == AppInit /\ [][AppNext]_vars

(***************************************************************************)
(* Properties.                                                             *)
(***************************************************************************)
Finished(f) == fn = f /\ pc = "done"

\* the four checks of one group, in the order of the specification; 0: none
FirstFailingCheck(n, c) ==
    CASE n < 0 -> 1
      [] n >= 0 /\ c < 0 -> 2
      [] n = 0 /\ c >= 0 -> 3
      [] n > 0 /\ c >= 0 /\ c > n -> 4
      [] OTHER -> 0

CheckReason ==
    <<"sample size is negative", "conversions are negative",
      "sample size cannot be 0", "conversions are greater than sample size">>

ValidGroup(n, c) == n >= 1 /\ 0 <= c /\ c <= n
ValidCounts(n_a, c_a, n_b, c_b) == ValidGroup(n_a, c_a) /\ ValidGroup(n_b, c_b)

\* C1: validate_inputs reports exactly the first failing check, group A before
\* group B and within a group in the order negative size, negative
\* conversions, zero size, conversions above size; it succeeds exactly when
\* no check fails.
C1_FirstFailingCheckReported ==
    Finished("validate_inputs") =>
        LET fa == FirstFailingCheck(args[1], args[2])
            fb == FirstFailingCheck(args[3], args[4])
        IN  /\ fa # 0 =>
                outcome = Raise(InvalidABTestInput, <<"Group", "A", CheckReason[fa]>>)
            /\ (fa = 0 /\ fb # 0) =>
                outcome = Raise(InvalidABTestInput, <<"Group", "B", CheckReason[fb]>>)
            /\ (fa = 0 /\ fb = 0) <=> outcome = Return(NoneValue)

C1_Witness ==
    /\ Finished("validate_inputs")
    /\ args[1] = 0 /\ args[2] < 0 /\ args[3] < 0 /\ args[4] > 0
    /\ outcome.msg = <<"Group", "A", "conversions are negative">>

\* C2: with an alternative outside the recognized three and valid counts,
\* z_test_proportions and run_ab_test fail with the invalid-argument error
\* and return nothing, degenerate counts included.
C2_UnrecognizedAlternativeFails ==
    /\ (Finished("z_test_proportions")
          /\ ValidCounts(args[1], args[2], args[3], args[4])
          /\ args[5] \notin RecognizedAlternatives)
        => (outcome.kind = "raise" /\ outcome.exc = "ValueError")
    /\ (Finished("run_ab_test")
          /\ ValidCounts(args.n_a, args.c_a, args.n_b, args.c_b)
          /\ args.alternative \notin RecognizedAlternatives)
        => (outcome.kind = "raise" /\ outcome.exc = "ValueError")

RunLocals ==
    {"cr_a", "cr_b", "lift_abs", "lift_rel", "z_score", "p_value",
     "is_significant"}

\* C3: run_ab_test returns nothing before it ends; when validation fails the
\* run ends with InvalidABTestInput and no component but validate_inputs has
\* been invoked, whatever the alternative; a run ends with a fully populated
\* record or with an error, and no component runs after a failure.
C3_NoPartialResult ==
    fn = "run_ab_test" =>
        /\ pc # "done" => outcome = NoOutcome
        /\ (~ValidCounts(args.n_a, args.c_a, args.n_b, args.c_b)
              /\ pc # "validate")
            => /\ pc = "done"
               /\ outcome.kind = "raise"
               /\ outcome.exc = InvalidABTestInput
               /\ trace = <<"validate_inputs">>
               /\ frame = EmptyFrame
        /\ pc = "done" =>
            \/ /\ outcome.kind = "return"
               /\ DOMAIN outcome.value = ABTestResultFields
               /\ DOMAIN frame = RunLocals
               /\ trace = <<"validate_inputs", "conversion_rate",
                            "conversion_rate", "compute_lift",
                            "z_test_proportions">>
            \/ /\ outcome.kind = "raise"
               /\ outcome.value = NoneValue
               /\ outcome.exc = InvalidABTestInput
                    => trace = <<"validate_inputs">>
               /\ outcome.exc # InvalidABTestInput
                    => /\ trace[Len(trace)] = "z_test_proportions"
                       /\ "is_significant" \notin DOMAIN frame

C3_Witness ==
    /\ Finished("run_ab_test")
    /\ args.n_a = 0 /\ args.c_b > args.n_b
    /\ args.alternative = "bogus"
    /\ outcome.exc = InvalidABTestInput

Degenerate(n_a, c_a, n_b, c_b) ==
    \/ c_a = 0 /\ c_b = 0
    \/ c_a = n_a /\ c_b = n_b

DegenerateRun ==
    /\ Finished("run_ab_test")
    /\ ValidCounts(args.n_a, args.c_a, args.n_b, args.c_b)
    /\ Degenerate(args.n_a, args.c_a, args.n_b, args.c_b)
    /\ args.alternative \in RecognizedAlternatives

\* C4 (as stated): a degenerate valid run returns z_score = 0.0,
\* p_value = 1.0 and is_significant = False for every alpha.
C4_DegenerateNeverSignificant ==
    DegenerateRun =>
        /\ outcome.kind = "return"
        /\ outcome.value.z_score = ZeroRoot
        /\ outcome.value.p_value = One
        /\ outcome.value.is_significant = FALSE

\* C4 (amended): a degenerate valid run returns z_score = 0.0 and
\* p_value = 1.0 for every alpha, and is_significant = False for every
\* alpha <= 1.0.
C4_DegenerateNotSignificantUpToOne ==
    DegenerateRun =>
        /\ outcome.kind = "return"
        /\ outcome.value.z_score = ZeroRoot
        /\ outcome.value.p_value = One
        /\ ~RLt(One, args.alpha) => outcome.value.is_significant = FALSE

C4_Witness ==
    /\ DegenerateRun
    /\ args.c_a = args.n_a /\ args.c_a > 0
    /\ args.alpha = One
    /\ outcome.value.is_significant = FALSE

\* C5: conversion_rate, compute_lift and z_test_proportions, called with
\* non-negative counts (zero sample sizes included) and a recognized
\* alternative, always return a value; the only error of z_test_proportions
\* is the invalid-argument error.
C5_NoDivisionByZero ==
    /\ (Finished("conversion_rate") /\ args[1] >= 0 /\ args[2] >= 0)
        => outcome.kind = "return"
    /\ Finished("compute_lift") => outcome.kind = "return"
    /\ Finished("z_test_proportions") =>
        /\ args[5] \in RecognizedAlternatives => outcome.kind = "return"
        /\ outcome.kind = "raise" => outcome.exc = "ValueError"

\* C6: compute_lift returns lift_abs = cr_b - cr_a and
\* lift_rel = lift_abs / cr_a when cr_a > 0, else lift_rel = 0.0.
C6_LiftRelZeroUnlessPositive ==
    Finished("compute_lift") =>
        LET lift_abs == RSub(args[2], args[1])
        IN  outcome = Return(<<lift_abs,
                               IF RLt(Zero, args[1])
                               THEN RDiv(lift_abs, args[1]) ELSE Zero>>)

\* C7: the recommendation is the row of (sign of lift_abs, is_significant);
\* the no-difference row is chosen exactly when lift_abs is 0, and ship
\* variant B only when lift_abs > 0 and is_significant.
C7_RecommendationTable ==
    Finished("build_result_summary") =>
        LET reco == outcome.value[3]
            positive == RLt(Zero, args.lift_abs)
            negative == RLt(args.lift_abs, Zero)
            significant == args.is_significant
        IN  /\ reco = RecoShip <=> (positive /\ significant)
            /\ reco = RecoContinue <=> (positive /\ ~significant)
            /\ reco = RecoHurts <=> (negative /\ significant)
            /\ reco = RecoKeep <=> (negative /\ ~significant)
            /\ reco = RecoNoDifference <=> args.lift_abs = Zero
            /\ reco \in {RecoShip, RecoContinue, RecoHurts, RecoKeep,
                         RecoNoDifference}

C7_Witness ==
    /\ Finished("build_result_summary")
    /\ args.lift_abs = Zero
    /\ args.is_significant
    /\ outcome.value[3] = RecoNoDifference

InUnitInterval(x) == ~RLt(x, Zero) /\ ~RLt(One, x)

\* C8: a record returned by run_ab_test has n >= 1, 0 <= c <= n,
\* cr = c / n within [0, 1], lift_abs = cr_b - cr_a, lift_rel = 0.0 when
\* cr_a = 0, is_significant exactly when p_value < alpha, and echoes the
\* caller's n, c and alpha.
C8_ResultInvariants ==
    (Finished("run_ab_test") /\ outcome.kind = "return") =>
        LET r == outcome.value
        IN  /\ r.n_a >= 1 /\ r.n_b >= 1
            /\ 0 <= r.c_a /\ r.c_a <= r.n_a
            /\ 0 <= r.c_b /\ r.c_b <= r.n_b
            /\ r.cr_a = Rat(r.c_a, r.n_a) /\ r.cr_b = Rat(r.c_b, r.n_b)
            /\ InUnitInterval(r.cr_a) /\ InUnitInterval(r.cr_b)
            /\ r.lift_abs = RSub(r.cr_b, r.cr_a)
            /\ r.cr_a = Zero => r.lift_rel = Zero
            /\ r.is_significant <=> RLt(r.p_value, r.alpha)
            /\ r.n_a = args.n_a /\ r.c_a = args.c_a
            /\ r.n_b = args.n_b /\ r.c_b = args.c_b
            /\ r.alpha = args.alpha

C8_Witness ==
    /\ Finished("run_ab_test")
    /\ outcome.kind = "return"
    /\ outcome.value.cr_a = Zero
    /\ outcome.value.lift_abs = One
    /\ outcome.value.lift_rel = Zero
    /\ outcome.value.is_significant

\* what the click handler appended to the results column
Shown == SubSeq(screen, Len(BaseScreen) + 1, Len(screen))
ShownKinds == {Shown[i][1] : i \in 1..Len(Shown)}
HandlerEnded == caller = "app" /\ pc = "idle" /\ fn = "run_ab_test"

\* C9: a click ends in one of two outcomes and never in an uncaught
\* exception: after an error of the core the message is displayed and no
\* metric, statistic or summary; otherwise the result and the summary of that
\* same result are rendered and no error.
C9_ClickShowsErrorOrResult ==
    /\ \A i \in 1..Len(screen) : screen[i][1] # "uncaught"
    /\ HandlerEnded =>
        IF outcome.kind = "raise"
        THEN /\ Len(Shown) = 1
             /\ Shown[1][1] = "error"
             /\ Shown[1][2] = outcome.msg
        ELSE /\ outcome.kind = "return"
             /\ "error" \notin ShownKinds
             /\ ShownKinds = {"subheader", "metric", "write", "info"}
             /\ Cardinality({i \in 1..Len(Shown) : Shown[i][1] = "info"}) = 1
             /\ Shown[Len(Shown)] = <<"info", build_result_summary(outcome.value)>>
             /\ Shown[2][3][1][3] = RMul(outcome.value.cr_a, FromInt(100))
             /\ Shown[3][3][1][3] = RMul(outcome.value.cr_b, FromInt(100))
             /\ Shown[6][3][3] = outcome.value.z_score
             /\ Shown[7][3][3] = outcome.value.p_value

C9_Witness ==
    /\ HandlerEnded
    /\ widgets.n_a > 0 /\ widgets.c_a > widgets.n_a
    /\ Len(Shown) = 1
    /\ Shown[1] = <<"error", <<"Group", "A", "conversions are greater than sample size">> >>

\* C10: the direction line is no observable difference exactly when
\* |lift_abs| < 1e-6, better when lift_abs >= 1e-6, worse when
\* lift_abs <= -1e-6; for 0 < |lift_abs| < 1e-6 the recommendation is still
\* the positive or negative row of its sign and is_significant.
C10_TwoTierThresholds ==
    Finished("build_result_summary") =>
        LET direction == outcome.value[1][1]
            reco == outcome.value[3]
            lift_abs == args.lift_abs
            significant == args.is_significant
        IN  /\ direction = DirectionNone <=> RLt(RAbs(lift_abs), Epsilon)
            /\ direction = DirectionBetter <=> ~RLt(lift_abs, Epsilon)
            /\ direction = DirectionWorse <=> ~RLt(RSub(Zero, Epsilon), lift_abs)
            /\ (lift_abs # Zero /\ RLt(RAbs(lift_abs), Epsilon)) =>
                /\ direction = DirectionNone
                /\ reco # RecoNoDifference
                /\ reco = IF RLt(Zero, lift_abs)
                          THEN (IF significant THEN RecoShip ELSE RecoContinue)
                          ELSE (IF significant THEN RecoHurts ELSE RecoKeep)

C10_Witness ==
    /\ Finished("build_result_summary")
    /\ args.lift_abs = <<0 - 1, 2000000>>
    /\ args.is_significant
    /\ outcome.value[1][1] = DirectionNone
    /\ outcome.value[3] = RecoHurts

====
